---- MODULE Spec2Model ----
(***************************************************************************)
(* Model of the GitHub access layer of nuggit: the circuit breaker of      *)
(* nuggit/util/error_recovery.py and the retrying client of                *)
(* nuggit/util/github_client.py.                                           *)
(*                                                                         *)
(* Time is counted in whole seconds.  A critical section guarded by the    *)
(* breaker's RLock is one atomic step; the wrapped operation runs between  *)
(* two such steps.  reset_circuit_breaker holds the manager's lock, not    *)
(* the breaker's, so its three assignments are three separate steps.       *)
(***************************************************************************)
EXTENDS Integers, Sequences, FiniteSets, TLC

\* ------------------------------------------------------------------ bounds
NumThreads == 2       \* concurrent callers of one breaker
MaxCalls == 3         \* calls admitted through the breaker in one behaviour
MaxTime == 2          \* last clock value (seconds)
MaxThreshold == 2     \* largest failure_threshold / success_threshold tried
MaxTimeout == 1       \* largest recovery_timeout tried (seconds)
MaxAttempt == 3       \* largest attempt number handed to the backoff policy
MaxRequests == 2      \* remote invocations one behaviour of the retry model can need
MaxRepoRuns == 4      \* client calls per behaviour of the repository model
MaxUpserts == 2       \* insert_or_update_repo calls in one behaviour
MaxVersions == 2      \* create_repository_version calls in one behaviour
MaxUpdates == 1           \* update_repository_fields calls in one behaviour
MaxSharedCalls == 2       \* calls each thread makes on the shared client
MaxCommits == 3           \* commits of the repository get_recent_commits reads
MaxCommitRetries == 2     \* largest max_retries handed to get_recent_commits

Threads == 1..NumThreads
None == -1

\* CircuitState
CLOSED == "closed"
OPEN == "open"
HALF_OPEN == "half_open"

VARIABLES
    config,        \* CircuitBreakerConfig of the breaker
    stats,         \* CircuitBreakerStats of the breaker
    last_failure_time,  \* CircuitBreaker._last_failure_time
    now,           \* the clock read by now_utc()
    pc,            \* per thread: "idle", or "func" while the wrapped operation runs
    rejected,      \* per thread: its last call raised CircuitBreakerOpenError
    resetPc,       \* position inside reset_circuit_breaker (0 = not running)
    opCalls,       \* history: invocations of the wrapped operation
    failStreak,    \* history: failed calls recorded since the last recorded success
    halfOpenSuccesses,  \* history: successes recorded in a row while HALF_OPEN
    halfOpenFailure,  \* history: the last outcome recorded was a failure while HALF_OPEN
    backoff_in,    \* arguments of one _calculate_backoff_delay call
    backoff_out,   \* the delay it returned (None before the call)
    _stats,        \* GitHubAPIClient._stats
    _rate_limit_cache,       \* GitHubAPIClient._rate_limit_cache: << >> or <<CORE entry>>
    _last_rate_limit_check,  \* GitHubAPIClient._last_rate_limit_check
    rpc,           \* position of the client call: "idle", "try", "except", "ret"
    api,           \* the client method being called
    rconfig,       \* its RetryConfig
    attempt,       \* loop variable of _execute_with_retry
    last_exception,  \* last_exception of _execute_with_retry
    raised,        \* what _execute_with_retry raised (Ok when it returned)
    outcome,       \* what the last client method call returned or raised
    info,          \* the dictionary built by the last successful operation
    last_op,       \* history: the primary and the topics answer of the last invocation
    opCount,       \* history: operation invocations of the current call
    excs,          \* history: the distinct results of those invocations
    stats0,        \* history: _stats when the current call started
    log,           \* history: what happened since the previous invocation
    runs,          \* history: client method calls started
    passes,        \* history: idle periods since the last client call (0 or 1)
    last_query,    \* history: when the quota endpoint was last queried
    repo_info,     \* what get_repo_info gave its caller, and how
    repositories,  \* the row of the repository in table repositories (NoRow before)
    repository_history,   \* the rows of table repository_history, oldest first
    repository_versions,  \* the rows of table repository_versions, oldest first
    db_pc,         \* per thread: its position in a database call and its locals
    db_call,       \* history: the last database call that completed
    db_calls,      \* history: database calls started
    unique_versions,  \* the schema declares UNIQUE(repo_id, version_number)
    db_updates,    \* history: update_repository_fields calls made
    regs,          \* per thread sharing the client: its position and the value it read
    commits_in,    \* arguments and answers of one get_recent_commits call
    commits_out    \* what it returned and the requests it made

breakerVars == <<config, stats, last_failure_time, now, pc, rejected, resetPc,
                 opCalls, failStreak, halfOpenSuccesses, halfOpenFailure>>

backoffVars == <<backoff_in, backoff_out>>

clientVars == <<_stats, _rate_limit_cache, _last_rate_limit_check, rpc, api,
                rconfig, attempt, last_exception, raised, outcome, info, last_op,
                opCount, excs, stats0, log, runs, passes, last_query,
                repo_info>>

dbVars == <<repositories, repository_history, repository_versions, db_pc,
            db_call, db_calls, unique_versions, db_updates>>

otherVars == <<regs, commits_in, commits_out>>

vars == <<config, stats, last_failure_time, now, pc, rejected, resetPc,
          opCalls, failStreak, halfOpenSuccesses, halfOpenFailure,
          backoff_in, backoff_out,
          _stats, _rate_limit_cache, _last_rate_limit_check, rpc, api,
          rconfig, attempt, last_exception, raised, outcome, info, last_op,
          opCount, excs, stats0, log, runs, passes, last_query, repo_info,
          repositories, repository_history, repository_versions, db_pc,
          db_call, db_calls, unique_versions, db_updates,
          regs, commits_in, commits_out>>

\* ------------------------------------------------------- client: state
DEFAULT_RATE_LIMIT_RESET_TIME == 3600
RateLimitCheckInterval == 300     \* _rate_limit_check_interval, 5 minutes
DatetimeMin == -1000000           \* datetime.min, long before any clock value

\* Exceptions and results are records of one shape.
Ok == [type |-> "ok", status |-> 200]
GithubException(st) == [type |-> "GithubException", status |-> st]
ConnectionError == [type |-> "ConnectionError", status |-> 0]
TypeError == [type |-> "TypeError", status |-> 0]
CircuitBreakerOpenError == [type |-> "CircuitBreakerOpenError", status |-> 0]
ReturnedNone == [type |-> "None", status |-> 0]
NoOutcome == [type |-> "none", status |-> 0]

NoInfo == [contributors |-> "none", commits |-> "none", latest_release |-> "none"]
NoOp == [primary |-> NoOutcome, topics |-> NoOutcome]

\* get_repo_info has not returned: result is what it returns or raises,
\* fallback the answer gh.get_repo gave the basic client, has_tags whether
\* the returned dictionary carries "tags" and "notes".
NoRepoInfo == [result |-> NoOutcome, fallback |-> NoOutcome, has_tags |-> FALSE]

\* get_recent_commits has not been called, and has not returned.
NoCommitsCall == [limit |-> 0]
NoCommits == [result |-> << >>, requests |-> None, slept |-> 0]

DefaultRetryConfig ==
    [max_retries |-> 5, base_delay |-> 1, max_delay |-> 300,
     exponential_base |-> 2, jitter |-> TRUE, respect_retry_after |-> TRUE]

\* get_recent_commits is not called.
CommitsIdle == commits_in = NoCommitsCall /\ commits_out = NoCommits

\* GitHubAPIClient.__init__, and no call in progress.
ClientIdle ==
    /\ _stats = [requests_made |-> 0, rate_limit_hits |-> 0,
                 retries_performed |-> 0, successful_requests |-> 0,
                 failed_requests |-> 0, total_wait_time |-> 0]
    /\ _rate_limit_cache = << >>
    /\ _last_rate_limit_check = DatetimeMin
    /\ rpc = "idle"
    /\ api = "none"
    /\ rconfig = DefaultRetryConfig
    /\ attempt = 0
    /\ last_exception = NoOutcome
    /\ raised = NoOutcome
    /\ outcome = NoOutcome
    /\ info = NoInfo
    /\ last_op = NoOp
    /\ opCount = 0
    /\ excs = {}
    /\ stats0 = _stats
    /\ log = << >>
    /\ runs = 0
    /\ passes = 0
    /\ regs = [t \in Threads |-> [pc |-> "idle", done |-> 0]]
    /\ last_query = DatetimeMin
    /\ repo_info = NoRepoInfo

\* ------------------------------------------------------- database: state
\* Python values held in records and columns: None, an int or a str.
\* A str is the sequence of its characters.
NONE == [kind |-> "none", i |-> 0, s |-> << >>]
IntVal(n) == [kind |-> "int", i |-> n, s |-> << >>]
StrVal(x) == [kind |-> "str", i |-> 0, s |-> x]

\* The columns of table repositories that are modelled.
Fields == {"stars", "tags", "notes", "last_synced", "version"}

\* No row is stored for the repository.
NoRow == [stored |-> FALSE]

\* A record passed to insert_or_update_repo with none of the modelled keys.
NoRecord == [stars |-> NONE, tags |-> NONE, notes |-> NONE, last_synced |-> NONE]

\* No database call has completed; a thread that is in no database call.
NoDbCall == [op |-> "none"]
DbThreadIdle == [pc |-> "idle"]

\* Empty tables, with no call in progress.
DbTables ==
    /\ repositories = NoRow
    /\ repository_history = << >>
    /\ repository_versions = << >>
    /\ db_pc = [t \in Threads |-> DbThreadIdle]
    /\ db_call = NoDbCall
    /\ db_calls = 0
    /\ db_updates = 0

\* The empty database with the schema of _legacy_initialize_database, whose
\* table repository_versions has no UNIQUE constraint.
DbIdle == DbTables /\ unique_versions = FALSE

\* ------------------------------------------------------- circuit breaker
CircuitBreakerConfig ==
    [failure_threshold : 1..MaxThreshold,
     recovery_timeout : 1..MaxTimeout,
     success_threshold : 1..MaxThreshold]

CircuitBreakerStats ==
    [total_requests |-> 0, successful_requests |-> 0, failed_requests |-> 0,
     circuit_opened_count |-> 0, last_failure_time |-> None,
     last_success_time |-> None, current_state |-> CLOSED,
     consecutive_failures |-> 0, consecutive_successes |-> 0]

BreakerInit ==
    /\ config \in CircuitBreakerConfig
    /\ stats = CircuitBreakerStats
    /\ last_failure_time = None
    /\ now = 0
    /\ pc = [t \in Threads |-> "idle"]
    /\ rejected = [t \in Threads |-> FALSE]
    /\ resetPc = 0
    /\ opCalls = 0
    /\ failStreak = 0
    /\ halfOpenSuccesses = 0
    /\ halfOpenFailure = FALSE

\* Variant: the breaker of get_repository opens after four failures.
BreakerIdle_threshold4 ==
    /\ config = [failure_threshold |-> 4, recovery_timeout |-> 30,
                 success_threshold |-> 2]
    /\ stats = CircuitBreakerStats
    /\ last_failure_time = None
    /\ now = 0
    /\ pc = [t \in Threads |-> "idle"]
    /\ rejected = [t \in Threads |-> FALSE]
    /\ resetPc = 0
    /\ opCalls = 0
    /\ failStreak = 0
    /\ halfOpenSuccesses = 0
    /\ halfOpenFailure = FALSE

\* The breaker get_repository creates (github_client.py, lines 285-289),
\* before its first call.
BreakerIdle ==
    /\ config = [failure_threshold |-> 3, recovery_timeout |-> 30,
                 success_threshold |-> 2]
    /\ stats = CircuitBreakerStats
    /\ last_failure_time = None
    /\ now = 0
    /\ pc = [t \in Threads |-> "idle"]
    /\ rejected = [t \in Threads |-> FALSE]
    /\ resetPc = 0
    /\ opCalls = 0
    /\ failStreak = 0
    /\ halfOpenSuccesses = 0
    /\ halfOpenFailure = FALSE

\* No backoff computation is being observed.
BackoffIdle ==
    /\ backoff_in = [attempt |-> 0, rate_limit_reset |-> None]
    /\ backoff_out = None

\* Variant: the recovery timeout must be strictly exceeded.
_should_attempt_reset_strict ==
    IF stats.current_state # OPEN THEN FALSE
    ELSE IF last_failure_time = None THEN TRUE
    ELSE now - last_failure_time > config.recovery_timeout

\* CircuitBreaker._should_attempt_reset
_should_attempt_reset ==
    IF stats.current_state # OPEN THEN FALSE
    ELSE IF last_failure_time = None THEN TRUE
    ELSE now - last_failure_time >= config.recovery_timeout

\* The state the locked block at the head of CircuitBreaker.call leaves behind.
GateState == IF _should_attempt_reset THEN HALF_OPEN ELSE stats.current_state

InFlight == Cardinality({t \in Threads : pc[t] = "func"})

\* CircuitBreaker.call, up to the invocation of func (or the fast failure).
BreakerEnter(t) ==
    /\ pc[t] = "idle"
    /\ stats' = [stats EXCEPT !.current_state = GateState]
    /\ IF GateState = OPEN
         THEN /\ rejected' = [rejected EXCEPT ![t] = TRUE]
              /\ UNCHANGED <<pc, opCalls>>
         ELSE /\ pc' = [pc EXCEPT ![t] = "func"]
              /\ rejected' = [rejected EXCEPT ![t] = FALSE]
              /\ opCalls' = opCalls + 1
    /\ halfOpenSuccesses' =
         IF stats.current_state = OPEN /\ GateState = HALF_OPEN THEN 0
         ELSE halfOpenSuccesses
    /\ UNCHANGED <<config, last_failure_time, resetPc, failStreak, halfOpenFailure>>

\* Variant: a success leaves the count of consecutive failures alone.
_record_success_keeps_failures(s) ==
    LET s1 == [s EXCEPT !.total_requests = @ + 1,
                        !.successful_requests = @ + 1,
                        !.consecutive_successes = @ + 1,
                        !.last_success_time = now]
    IN IF s1.current_state = HALF_OPEN
          /\ s1.consecutive_successes >= config.success_threshold
       THEN [s1 EXCEPT !.current_state = CLOSED]
       ELSE s1

\* CircuitBreakerStats after CircuitBreaker._record_success
_record_success(s) ==
    LET s1 == [s EXCEPT !.total_requests = @ + 1,
                        !.successful_requests = @ + 1,
                        !.consecutive_failures = 0,
                        !.consecutive_successes = @ + 1,
                        !.last_success_time = now]
    IN IF s1.current_state = HALF_OPEN
          /\ s1.consecutive_successes >= config.success_threshold
       THEN [s1 EXCEPT !.current_state = CLOSED]
       ELSE s1

\* Variant: the circuit opens one failure late (> instead of >=).
_record_failure_late(s) ==
    LET s1 == [s EXCEPT !.total_requests = @ + 1,
                        !.failed_requests = @ + 1,
                        !.consecutive_successes = 0,
                        !.consecutive_failures = @ + 1,
                        !.last_failure_time = now]
    IN IF s1.current_state = CLOSED
          /\ s1.consecutive_failures > config.failure_threshold
       THEN [s1 EXCEPT !.current_state = OPEN,
                       !.circuit_opened_count = @ + 1]
       ELSE IF s1.current_state = HALF_OPEN
       THEN [s1 EXCEPT !.current_state = OPEN]
       ELSE s1

\* Variant: a half-open failure reopens only once the failure streak is long enough.
_record_failure_streak(s) ==
    LET s1 == [s EXCEPT !.total_requests = @ + 1,
                        !.failed_requests = @ + 1,
                        !.consecutive_successes = 0,
                        !.consecutive_failures = @ + 1,
                        !.last_failure_time = now]
    IN IF s1.current_state = CLOSED
          /\ s1.consecutive_failures >= config.failure_threshold
       THEN [s1 EXCEPT !.current_state = OPEN,
                       !.circuit_opened_count = @ + 1]
       ELSE IF s1.current_state = HALF_OPEN
               /\ s1.consecutive_failures >= config.failure_threshold
       THEN [s1 EXCEPT !.current_state = OPEN]
       ELSE s1

\* CircuitBreakerStats after CircuitBreaker._record_failure
_record_failure(s) ==
    LET s1 == [s EXCEPT !.total_requests = @ + 1,
                        !.failed_requests = @ + 1,
                        !.consecutive_successes = 0,
                        !.consecutive_failures = @ + 1,
                        !.last_failure_time = now]
    IN IF s1.current_state = CLOSED
          /\ s1.consecutive_failures >= config.failure_threshold
       THEN [s1 EXCEPT !.current_state = OPEN,
                       !.circuit_opened_count = @ + 1]
       ELSE IF s1.current_state = HALF_OPEN
       THEN [s1 EXCEPT !.current_state = OPEN]
       ELSE s1

\* CircuitBreaker.call: func returned, the success is recorded.
BreakerSuccess(t) ==
    /\ pc[t] = "func"
    /\ stats' = _record_success(stats)
    /\ pc' = [pc EXCEPT ![t] = "idle"]
    /\ failStreak' = 0
    /\ halfOpenSuccesses' =
         IF stats.current_state = HALF_OPEN THEN halfOpenSuccesses + 1 ELSE 0
    /\ halfOpenFailure' = FALSE
    /\ UNCHANGED <<config, last_failure_time, resetPc, opCalls, rejected>>

\* CircuitBreaker.call: func raised, the failure is recorded and re-raised.
BreakerFailure(t) ==
    /\ pc[t] = "func"
    /\ stats' = _record_failure(stats)
    /\ last_failure_time' = now
    /\ pc' = [pc EXCEPT ![t] = "idle"]
    /\ failStreak' = failStreak + 1
    /\ halfOpenSuccesses' = 0
    /\ halfOpenFailure' = (stats.current_state = HALF_OPEN)
    /\ UNCHANGED <<config, resetPc, opCalls, rejected>>

\* The three steps of CircuitBreaker.call on a breaker used on its own.
CallEnter(t) ==
    /\ stats.total_requests + InFlight < MaxCalls
    /\ BreakerEnter(t) /\ UNCHANGED now /\ UNCHANGED <<backoffVars, clientVars, dbVars, otherVars>>

CallSuccess(t) ==
    BreakerSuccess(t) /\ UNCHANGED now /\ UNCHANGED <<backoffVars, clientVars, dbVars, otherVars>>

CallFailure(t) ==
    BreakerFailure(t) /\ UNCHANGED now /\ UNCHANGED <<backoffVars, clientVars, dbVars, otherVars>>

\* ErrorRecoveryManager.reset_circuit_breaker: three unlocked assignments.
ResetState ==
    /\ resetPc = 0
    /\ stats' = [stats EXCEPT !.current_state = CLOSED]
    /\ resetPc' = 1
    /\ UNCHANGED <<config, last_failure_time, now, pc, rejected, opCalls,
                   failStreak, halfOpenSuccesses, halfOpenFailure>>
    /\ UNCHANGED <<backoffVars, clientVars, dbVars, otherVars>>

ResetFailures ==
    /\ resetPc = 1
    /\ stats' = [stats EXCEPT !.consecutive_failures = 0]
    /\ resetPc' = 2
    /\ UNCHANGED <<config, last_failure_time, now, pc, rejected, opCalls,
                   failStreak, halfOpenSuccesses, halfOpenFailure>>
    /\ UNCHANGED <<backoffVars, clientVars, dbVars, otherVars>>

ResetSuccesses ==
    /\ resetPc = 2
    /\ stats' = [stats EXCEPT !.consecutive_successes = 0]
    /\ resetPc' = 0
    /\ UNCHANGED <<config, last_failure_time, now, pc, rejected, opCalls,
                   failStreak, halfOpenSuccesses, halfOpenFailure>>
    /\ UNCHANGED <<backoffVars, clientVars, dbVars, otherVars>>

\* One second passes on the clock of now_utc().
Tick ==
    /\ now < MaxTime
    /\ now' = now + 1
    /\ UNCHANGED <<config, stats, last_failure_time, pc, rejected, resetPc,
                   opCalls, failStreak, halfOpenSuccesses, halfOpenFailure>>
    /\ UNCHANGED <<backoffVars, clientVars, dbVars, otherVars>>

\* Calls only: the breaker as CircuitBreaker.call drives it.
CallsNext ==
    \/ \E t \in Threads : CallEnter(t)
    \/ \E t \in Threads : CallSuccess(t)
    \/ \E t \in Threads : CallFailure(t)
    \/ Tick

CallsInit == BreakerInit /\ BackoffIdle /\ ClientIdle /\ CommitsIdle /\ DbIdle

SpecCalls == CallsInit /\ [][CallsNext]_vars

Init == BreakerInit /\ BackoffIdle /\ ClientIdle /\ CommitsIdle /\ DbIdle

Next ==
    \/ \E t \in Threads : CallEnter(t)
    \/ \E t \in Threads : CallSuccess(t)
    \/ \E t \in Threads : CallFailure(t)
    \/ ResetState
    \/ ResetFailures
    \/ ResetSuccesses
    \/ Tick

Spec == Init /\ [][Next]_vars

TypeOK ==
    /\ config.failure_threshold >= 1
    /\ config.success_threshold >= 1
    /\ stats.current_state \in {CLOSED, OPEN, HALF_OPEN}
    /\ pc \in [Threads -> {"idle", "func"}]
    /\ now >= 0
\* --------------------------------------------------------- backoff policy
\* Delays are held in 1/Scale seconds, so that the jitter factors 0.5, 1.0
\* and 1.5 of random.uniform(0.5, 1.5) are exact on them.
Scale == 2
JitterDraws == {1, 3}         \* random.uniform(0.5, 1.5), in halves: its extremes
PadDraws == {1, 5}            \* random.uniform(1, 5), in seconds

Min(a, b) == IF a <= b THEN a ELSE b
Max(a, b) == IF a >= b THEN a ELSE b

RECURSIVE Pow(_, _)
Pow(b, n) == IF n = 0 THEN 1 ELSE b * Pow(b, n - 1)

\* RetryConfig values the backoff policy is tried on.
RetryConfig ==
    [max_retries : {MaxAttempt},
     base_delay : {1, 2},
     max_delay : {3, 10, 300},
     exponential_base : {1, 2, 3},
     jitter : BOOLEAN,
     respect_retry_after : BOOLEAN]

ResetSeconds == {None, 0, 2, 400}

\* Variant: the cap at max_delay is forgotten.
_calculate_backoff_delay_uncapped(att, cfg, rate_limit_reset, pad, jit) ==
    LET d0 == IF rate_limit_reset # None /\ rate_limit_reset # 0
                 /\ cfg.respect_retry_after
              THEN (rate_limit_reset + pad) * Scale
              ELSE cfg.base_delay * Pow(cfg.exponential_base, att) * Scale
    IN IF cfg.jitter THEN (d0 * jit) \div 2 ELSE d0

\* GitHubAPIClient._calculate_backoff_delay, with the two random draws as
\* arguments; the result is in 1/Scale seconds.
_calculate_backoff_delay(att, cfg, rate_limit_reset, pad, jit) ==
    LET d0 == IF rate_limit_reset # None /\ rate_limit_reset # 0
                 /\ cfg.respect_retry_after
              THEN (rate_limit_reset + pad) * Scale
              ELSE cfg.base_delay * Pow(cfg.exponential_base, att) * Scale
        d1 == IF cfg.jitter THEN (d0 * jit) \div 2 ELSE d0
    IN Min(d1, cfg.max_delay * Scale)

BackoffInit ==
    /\ BreakerIdle
    /\ ClientIdle /\ CommitsIdle
    /\ DbIdle
    /\ backoff_in \in [attempt : 0..MaxAttempt, config : RetryConfig,
                       rate_limit_reset : ResetSeconds]
    /\ backoff_out = None

\* One call of _calculate_backoff_delay on the chosen arguments.
BackoffCall ==
    /\ backoff_out = None
    /\ \E pad \in PadDraws, jit \in JitterDraws :
         backoff_out' = _calculate_backoff_delay(backoff_in.attempt,
                            backoff_in.config, backoff_in.rate_limit_reset,
                            pad, jit)
    /\ UNCHANGED backoff_in
    /\ UNCHANGED <<breakerVars, clientVars, dbVars, otherVars>>

BackoffNext == BackoffCall

SpecBackoff == BackoffInit /\ [][BackoffNext]_vars

\* ------------------------------------------------- client: rate limiting
ResetOffsets == {2}           \* seconds from a quota query to the reset it reports

\* What GitHub's quota endpoint can answer: an error, a structure without
\* core/limit attributes, or the core quota.
RateLimitAnswers ==
    {[kind |-> "fail", remaining |-> 0, reset_in |-> 0],
     [kind |-> "unknown", remaining |-> 0, reset_in |-> 0]}
      \cup [kind : {"core"}, remaining : {0, 10}, reset_in : ResetOffsets]

\* The default RateLimitInfo: its reset_time is an int, not a datetime.
DefaultRateLimitInfo(t) ==
    [limit |-> 5000, remaining |-> 5000,
     reset_time |-> t + DEFAULT_RATE_LIMIT_RESET_TIME, used |-> 0,
     is_datetime |-> FALSE]

\* RateLimitInfo.is_exhausted
is_exhausted(ri) == ri.remaining <= 0

\* RateLimitInfo.reset_in_seconds at clock t (a TypeError unless reset_time
\* is a datetime)
reset_in_seconds(ri, t) == Max(0, ri.reset_time - t)

\* A local state threaded through one loop iteration of _execute_with_retry.
Local ==
    [cache |-> _rate_limit_cache, last |-> _last_rate_limit_check,
     now |-> now, stats |-> _stats, log |-> log, exc |-> Ok,
     queried |-> last_query]

\* GitHubAPIClient._update_rate_limit_info(force), the endpoint answering ans.
_update_rate_limit_info(L, force, ans) ==
    IF ~force /\ L.now - L.last < RateLimitCheckInterval
    THEN L
    ELSE LET L1 == [L EXCEPT !.log = Append(@, IF force THEN "refresh" ELSE "query"),
                             !.queried = L.now]
         IN IF ans.kind = "fail"
            THEN IF L.cache = << >>
                 THEN [L1 EXCEPT !.cache = <<DefaultRateLimitInfo(L.now)>>]
                 ELSE L1
            ELSE IF ans.kind = "unknown"
            THEN [L1 EXCEPT !.cache = <<DefaultRateLimitInfo(L.now)>>,
                            !.last = L.now]
            ELSE [L1 EXCEPT !.cache = <<[limit |-> 5000,
                                         remaining |-> ans.remaining,
                                         reset_time |-> L.now + ans.reset_in,
                                         used |-> 5000 - ans.remaining,
                                         is_datetime |-> TRUE]>>,
                            !.last = L.now]

\* time.sleep(d) for d in 1/Scale seconds: the clock moves on by at least d.
Sleep(L, d, what) ==
    [L EXCEPT !.now = @ + ((d + Scale - 1) \div Scale),
              !.stats.total_wait_time = @ + d,
              !.log = Append(@, what)]

\* Variant: the quota check runs ahead of the first attempt as well.
PreCheck_every_attempt(L, att) ==
    IF L.cache # << >>
    THEN UNION {
           LET L1 == _update_rate_limit_info(L, FALSE, a1)
               ri == L1.cache[1]
           IN IF is_exhausted(ri)
              THEN IF ~ri.is_datetime
                   THEN {[L1 EXCEPT !.exc = TypeError]}
                   ELSE {_update_rate_limit_info(
                            Sleep(L1, (reset_in_seconds(ri, L1.now) + pad) * Scale,
                                  "wait"),
                            TRUE, a2) : pad \in PadDraws, a2 \in RateLimitAnswers}
              ELSE {L1}
           : a1 \in RateLimitAnswers}
    ELSE {L}

\* _execute_with_retry, lines 221-228: the quota check ahead of an attempt.
PreCheck(L, att) ==
    IF att > 0 /\ L.cache # << >>
    THEN UNION {
           LET L1 == _update_rate_limit_info(L, FALSE, a1)
               ri == L1.cache[1]
           IN IF is_exhausted(ri)
              THEN IF ~ri.is_datetime
                   THEN {[L1 EXCEPT !.exc = TypeError]}
                   ELSE {_update_rate_limit_info(
                            Sleep(L1, (reset_in_seconds(ri, L1.now) + pad) * Scale,
                                  "wait"),
                            TRUE, a2) : pad \in PadDraws, a2 \in RateLimitAnswers}
              ELSE {L1}
           : a1 \in RateLimitAnswers}
    ELSE {L}

\* Variant: every GithubException is retried.
_should_retry_any(e, att, cfg) ==
    IF att >= cfg.max_retries THEN FALSE
    ELSE IF e.type = "GithubException" THEN TRUE
    ELSE e.type \in {"ConnectionError", "TimeoutError"}

\* Variant: server errors are not retried.
_should_retry_no5xx(e, att, cfg) ==
    IF att >= cfg.max_retries THEN FALSE
    ELSE IF e.type = "GithubException" /\ e.status = 403 THEN TRUE
    ELSE e.type \in {"ConnectionError", "TimeoutError"}

\* GitHubAPIClient._should_retry
_should_retry(e, att, cfg) ==
    IF att >= cfg.max_retries THEN FALSE
    ELSE IF e.type = "GithubException"
            /\ (\/ e.status = 403
                \/ e.status >= 500
                \/ e.status = 502
                \/ e.status = 503
                \/ e.status = 504)
    THEN TRUE
    ELSE e.type \in {"ConnectionError", "TimeoutError"}

\* Variant: rate limiting is recognised by status 429 instead of 403.
IsRateLimit_429(e) == e.type = "GithubException" /\ e.status = 429

\* _execute_with_retry, lines 244 and 254: the exception is a rate-limit answer.
IsRateLimit(e) == e.type = "GithubException" /\ e.status = 403

\* Variant: the except block refreshes the quota after every retried failure.
Handler_refresh_always(L, e, att, cfg) ==
    LET L1 == [L EXCEPT !.stats.failed_requests = @ + 1,
                        !.stats.rate_limit_hits =
                            IF IsRateLimit(e) THEN @ + 1 ELSE @,
                        !.exc = e]
        Retry(L2, reset, pad, jit) ==
            LET d == _calculate_backoff_delay(att, cfg, reset, pad, jit)
                L3 == Sleep([L2 EXCEPT !.log = Append(@, "delay")], d, "sleep")
            IN [L3 EXCEPT !.stats.retries_performed = @ + 1]
    IN IF ~_should_retry(e, att, cfg)
       THEN {[loc |-> L1, next |-> "raise"]}
       ELSE IF IsRateLimit(e)
       THEN UNION {
              LET L2 == _update_rate_limit_info(L1, FALSE, a1)
                  ri == L2.cache[1]
              IN IF ~ri.is_datetime
                 THEN {[loc |-> [L2 EXCEPT !.exc = TypeError], next |-> "raise"]}
                 ELSE {[loc |-> _update_rate_limit_info(
                                   Retry(L2, reset_in_seconds(ri, L2.now), pad, jit),
                                   TRUE, a2),
                        next |-> "loop"]
                       : pad \in PadDraws, jit \in JitterDraws,
                         a2 \in RateLimitAnswers}
              : a1 \in RateLimitAnswers}
       ELSE {[loc |-> _update_rate_limit_info(Retry(L1, None, pad, jit), TRUE, a2),
              next |-> "loop"]
             : pad \in PadDraws, jit \in JitterDraws, a2 \in RateLimitAnswers}

\* _execute_with_retry, lines 240-271: the except block for exception e.
\* next is "loop" (go on with the next attempt) or "raise".
Handler(L, e, att, cfg) ==
    LET L1 == [L EXCEPT !.stats.failed_requests = @ + 1,
                        !.stats.rate_limit_hits =
                            IF IsRateLimit(e) THEN @ + 1 ELSE @,
                        !.exc = e]
        Retry(L2, reset, pad, jit) ==
            LET d == _calculate_backoff_delay(att, cfg, reset, pad, jit)
                L3 == Sleep([L2 EXCEPT !.log = Append(@, "delay")], d, "sleep")
            IN [L3 EXCEPT !.stats.retries_performed = @ + 1]
    IN IF ~_should_retry(e, att, cfg)
       THEN {[loc |-> L1, next |-> "raise"]}
       ELSE IF IsRateLimit(e)
       THEN UNION {
              LET L2 == _update_rate_limit_info(L1, FALSE, a1)
                  ri == L2.cache[1]
              IN IF ~ri.is_datetime
                 THEN {[loc |-> [L2 EXCEPT !.exc = TypeError], next |-> "raise"]}
                 ELSE {[loc |-> _update_rate_limit_info(
                                   Retry(L2, reset_in_seconds(ri, L2.now), pad, jit),
                                   TRUE, a2),
                        next |-> "loop"]
                       : pad \in PadDraws, jit \in JitterDraws,
                         a2 \in RateLimitAnswers}
              : a1 \in RateLimitAnswers}
       ELSE {[loc |-> Retry(L1, None, pad, jit), next |-> "loop"]
             : pad \in PadDraws, jit \in JitterDraws}

\* ------------------------------------------------- client: the operations
\* What a remote call can answer.
Outcomes ==
    {Ok, GithubException(403), GithubException(404), GithubException(500),
     ConnectionError}

\* The remote answers the repository model is run on.
RepoOutcomes == {Ok, GithubException(404), GithubException(500)}

\* The operation of get_repository (one remote call) and the operation of
\* get_repository_info (lines 318-360): the primary get_repo, then the
\* contributors, commits and releases calls, each inside try/except, then
\* get_topics inside the dictionary, outside any try.
Operation(a, prim, con, com, rel, top) ==
    IF prim # Ok THEN [exc |-> prim, info |-> NoInfo]
    ELSE IF a = "get_repository" THEN [exc |-> Ok, info |-> NoInfo]
    ELSE IF top # Ok THEN [exc |-> top, info |-> NoInfo]
    ELSE [exc |-> Ok,
          info |-> [contributors |-> IF con = "ok" THEN "count" ELSE "5000+",
                    commits |-> IF com = "ok" THEN "count" ELSE "0",
                    latest_release |-> IF rel = "ok" THEN "tag" ELSE "none"]]

\* The answers one invocation of the operation of method a can get.
OperationRuns(a, outs) ==
    {[primary |-> prim, contributors |-> "none", commits |-> "none",
      releases |-> "none", topics |-> NoOutcome]
       : prim \in IF a = "get_repository_info" THEN outs \ {Ok} ELSE outs}
      \cup (IF a = "get_repository_info"
            THEN [primary : {Ok}, contributors : {"ok", "err"},
                  commits : {"ok", "err"}, releases : {"ok", "err"},
                  topics : outs]
            ELSE {})

RunOperation(a, o) ==
    Operation(a, o.primary, o.contributors, o.commits, o.releases, o.topics)

\* Variant: get_repository_info is wrapped in the breaker as well.
UsesBreakerAlways(a) == a \in {"get_repository", "get_repository_info"}

\* True when the method wraps its retry loop in the circuit breaker
\* (get_repository does, lines 284-300; get_repository_info does not).
UsesBreaker(a) == a = "get_repository"

\* The RetryConfig values client calls are made with.
RetryConfigs ==
    [max_retries : 0..(MaxRequests - 1), base_delay : {1}, max_delay : {300},
     exponential_base : {2}, jitter : BOOLEAN, respect_retry_after : {TRUE}]

RepoConfigs ==
    [max_retries : {0, 1}, base_delay : {1}, max_delay : {300},
     exponential_base : {2}, jitter : {FALSE}, respect_retry_after : {TRUE}]

\* A client method is called: get_repository passes the breaker's gate first.
\* The call is made only when the remote invocations it can need fit maxReqs.
StartCall(apis, cfgs, maxRuns, maxReqs) ==
    /\ rpc = "idle"
    /\ runs < maxRuns
    /\ \E a \in apis, c \in cfgs :
         /\ _stats.requests_made + c.max_retries + 1 <= maxReqs
         /\ api' = a
         /\ rconfig' = c
         /\ IF UsesBreaker(a)
              THEN /\ BreakerEnter(1)
                   /\ IF GateState = OPEN
                        THEN rpc' = "idle" /\ outcome' = CircuitBreakerOpenError
                        ELSE rpc' = "try" /\ outcome' = NoOutcome
              ELSE /\ rpc' = "try"
                   /\ outcome' = NoOutcome
                   /\ UNCHANGED <<config, stats, last_failure_time, pc, rejected,
                                  resetPc, opCalls, failStreak,
                                  halfOpenSuccesses, halfOpenFailure>>
    /\ attempt' = 0
    /\ last_exception' = NoOutcome
    /\ raised' = NoOutcome
    /\ info' = NoInfo
    /\ last_op' = NoOp
    /\ opCount' = 0
    /\ excs' = {}
    /\ stats0' = _stats
    /\ log' = << >>
    /\ runs' = runs + 1
    /\ passes' = 0
    /\ repo_info' = NoRepoInfo
    /\ UNCHANGED <<now, _stats, _rate_limit_cache, _last_rate_limit_check,
                   last_query>>
    /\ UNCHANGED <<backoffVars, dbVars, otherVars>>

\* Writes a local state back to the client.
Commit(L) ==
    /\ _rate_limit_cache' = L.cache
    /\ _last_rate_limit_check' = L.last
    /\ now' = L.now
    /\ _stats' = L.stats
    /\ log' = L.log
    /\ last_query' = L.queried

\* The handler's part of an iteration: exception e was raised in the try block.
Handle(L, e) ==
    \E h \in Handler(L, e, attempt, rconfig) :
      /\ Commit(h.loc)
      /\ last_exception' = e
      /\ info' = info
      /\ IF h.next = "loop" /\ attempt + 1 <= rconfig.max_retries
           THEN /\ rpc' = "try"
                /\ attempt' = attempt + 1
                /\ raised' = raised
           ELSE /\ rpc' = "ret"
                /\ attempt' = attempt
                /\ raised' = IF h.next = "loop" THEN e ELSE h.loc.exc

\* One iteration of the loop of _execute_with_retry: the quota check, the
\* invocation of the operation and, when it fails, the except block.
Iteration(outs) ==
    /\ rpc = "try"
    /\ \E P \in PreCheck(Local, attempt) :
         IF P.exc # Ok
         THEN /\ Handle(P, P.exc)
              /\ UNCHANGED <<last_op, opCount, excs>>
         ELSE \E o \in OperationRuns(api, outs) :
                LET r == RunOperation(api, o)
                    L1 == [P EXCEPT !.stats.requests_made = @ + 1,
                                    !.log = Append(@, "op")]
                IN /\ last_op' = [primary |-> o.primary, topics |-> o.topics]
                   /\ opCount' = opCount + 1
                   /\ excs' = excs \cup {r.exc}
                   /\ IF r.exc = Ok
                        THEN /\ Commit([L1 EXCEPT
                                          !.stats.successful_requests = @ + 1])
                             /\ info' = r.info
                             /\ raised' = Ok
                             /\ rpc' = "ret"
                             /\ UNCHANGED <<attempt, last_exception>>
                        ELSE Handle([L1 EXCEPT !.log = <<"op">>], r.exc)
    /\ UNCHANGED <<api, rconfig, outcome, stats0, runs, passes, repo_info>>
    /\ UNCHANGED <<config, stats, last_failure_time, pc, rejected, resetPc,
                   opCalls, failStreak, halfOpenSuccesses, halfOpenFailure>>
    /\ UNCHANGED <<backoffVars, dbVars, otherVars>>

\* The method returns to its caller: get_repository records the outcome on
\* the breaker (CircuitBreaker.call), get_repository_info turns a 404 into
\* None (lines 362-372).
Return ==
    /\ rpc = "ret"
    /\ rpc' = "idle"
    /\ IF UsesBreaker(api)
         THEN /\ IF raised = Ok THEN BreakerSuccess(1) ELSE BreakerFailure(1)
              /\ outcome' = raised
         ELSE /\ outcome' = IF raised = GithubException(404)
                            THEN ReturnedNone ELSE raised
              /\ UNCHANGED <<config, stats, last_failure_time, pc, rejected,
                             resetPc, opCalls, failStreak,
                             halfOpenSuccesses, halfOpenFailure>>
    /\ UNCHANGED <<now, _stats, _rate_limit_cache, _last_rate_limit_check,
                   api, rconfig, attempt, last_exception, raised, info,
                   last_op, opCount, excs, stats0, log, runs, passes,
                   last_query, repo_info>>
    /\ UNCHANGED <<backoffVars, dbVars, otherVars>>

\* GitHubAPIClient.get_rate_limit_info called between client calls.
GetRateLimitInfo ==
    /\ rpc = "idle"
    /\ \E ans \in RateLimitAnswers :
         LET L == _update_rate_limit_info(Local, FALSE, ans)
         IN /\ _rate_limit_cache' = L.cache
            /\ _last_rate_limit_check' = L.last
            /\ last_query' = L.queried
    /\ UNCHANGED <<now, _stats, rpc, api, rconfig, attempt, last_exception,
                   raised, outcome, info, last_op, opCount, excs, stats0, log,
                   runs, passes, repo_info>>
    /\ UNCHANGED <<config, stats, last_failure_time, pc, rejected, resetPc,
                   opCalls, failStreak, halfOpenSuccesses, halfOpenFailure>>
    /\ UNCHANGED <<backoffVars, dbVars, otherVars>>

\* d seconds pass between two client calls.
Pass(steps) ==
    /\ rpc = "idle"
    /\ passes = 0
    /\ \E d \in steps : now' = now + d
    /\ passes' = passes + 1
    /\ UNCHANGED <<_stats, _rate_limit_cache, _last_rate_limit_check, rpc, api,
                   rconfig, attempt, last_exception, raised, outcome, info,
                   last_op, opCount, excs, stats0, log, runs, last_query,
                   repo_info>>
    /\ UNCHANGED <<config, stats, last_failure_time, pc, rejected, resetPc,
                   opCalls, failStreak, halfOpenSuccesses, halfOpenFailure>>
    /\ UNCHANGED <<backoffVars, dbVars, otherVars>>

ClientInit == BreakerIdle /\ BackoffIdle /\ ClientIdle /\ CommitsIdle /\ DbIdle

\* The retry loop on its own: get_repository_info calls on one client.
RetryNext ==
    \/ StartCall({"get_repository_info"}, RetryConfigs, MaxRequests, MaxRequests)
    \/ Iteration(Outcomes)
    \/ Return
    \/ GetRateLimitInfo
    \/ Pass({300})

SpecRetry == ClientInit /\ [][RetryNext]_vars

\* get_repository and get_repository_info calls for one repository.
RepoNext ==
    \/ StartCall({"get_repository", "get_repository_info"}, RepoConfigs,
                 MaxRepoRuns, 2 * MaxRepoRuns)
    \/ Iteration(RepoOutcomes)
    \/ Return
    \/ Pass({30})

SpecRepo == ClientInit /\ [][RepoNext]_vars

\* ---------------------------------------------------------------- claims
Elapsed == now - last_failure_time

\* C1: with failure_threshold = N, the failure that completes a run of N
\* consecutive failed calls leaves the breaker OPEN, and a call made after
\* such a run with no other call in flight and before recovery_timeout has
\* elapsed is rejected with CircuitBreakerOpenError without invoking the
\* wrapped operation.
C1_OpensAfterThreshold ==
    [][\A t \in Threads :
        /\ (CallFailure(t) /\ failStreak' >= config.failure_threshold)
             => stats'.current_state = OPEN
        /\ (/\ CallEnter(t)
            /\ failStreak >= config.failure_threshold
            /\ InFlight = 0
            /\ Elapsed < config.recovery_timeout)
             => /\ rejected'[t]
                /\ pc'[t] = "idle"
                /\ opCalls' = opCalls]_vars

\* Exactly N calls were made, all failed, and the next call was rejected.
C1_Witness ==
    /\ stats.total_requests = config.failure_threshold
    /\ stats.failed_requests = config.failure_threshold
    /\ failStreak = config.failure_threshold
    /\ opCalls = config.failure_threshold
    /\ stats.current_state = OPEN
    /\ \E t \in Threads : rejected[t]

\* C2: a call arriving at an OPEN breaker is let through to the wrapped
\* operation, turning the breaker HALF_OPEN, exactly when recovery_timeout
\* has elapsed since the last recorded failure; otherwise it is rejected,
\* the operation is not invoked and the breaker stays OPEN.
C2_OpenGate ==
    [][\A t \in Threads :
        (CallEnter(t) /\ stats.current_state = OPEN)
          => /\ last_failure_time # None
             /\ IF Elapsed >= config.recovery_timeout
                  THEN /\ stats'.current_state = HALF_OPEN
                       /\ pc'[t] = "func"
                       /\ opCalls' = opCalls + 1
                  ELSE /\ stats'.current_state = OPEN
                       /\ rejected'[t]
                       /\ pc'[t] = "idle"
                       /\ opCalls' = opCalls]_vars

\* One caller was rejected at the open breaker, a later one was let through.
C2_Witness ==
    \E t, u \in Threads :
        /\ rejected[t]
        /\ pc[u] = "func"
        /\ stats.current_state = HALF_OPEN
        /\ Elapsed >= config.recovery_timeout

\* C3: the breaker goes from HALF_OPEN to CLOSED on a recorded success only
\* when success_threshold successes in a row were recorded while HALF_OPEN.
C3_ClosesAfterHalfOpenSuccesses ==
    [][\A t \in Threads :
        (/\ CallSuccess(t)
         /\ stats.current_state = HALF_OPEN
         /\ stats'.current_state = CLOSED)
          => halfOpenSuccesses' >= config.success_threshold]_vars

\* C4: a failure recorded while HALF_OPEN leaves the breaker OPEN, whatever
\* the streak counters are.
C4_HalfOpenFailureReopens ==
    [][\A t \in Threads :
        (CallFailure(t) /\ stats.current_state = HALF_OPEN)
          => stats'.current_state = OPEN]_vars

\* A half-open failure reopened the breaker with the failure streak below
\* failure_threshold.
C4_Witness ==
    /\ halfOpenFailure
    /\ stats.current_state = OPEN
    /\ stats.consecutive_failures < config.failure_threshold
\* C7: with a rate-limit reset of R seconds supplied and respect_retry_after
\* set, the returned delay is at least R seconds, whatever jitter and
\* max_delay are.
C7_DelayCoversReset ==
    (/\ backoff_out # None
     /\ backoff_in.rate_limit_reset # None
     /\ backoff_in.config.respect_retry_after)
      => backoff_out >= backoff_in.rate_limit_reset * Scale

NotFound == GithubException(404)
ServerError == GithubException(500)

\* C5: in get_repository_info, the invocation whose primary request answers
\* 404 is the last one (no retry follows) and the call returns None; when it
\* is the first invocation the operation ran exactly once, whatever
\* max_retries is, and neither retries_performed nor total_wait_time moved.
C5_NotFoundIsTerminal ==
    (api = "get_repository_info" /\ last_op.primary = NotFound)
      => /\ rpc # "try"
         /\ raised = NotFound
         /\ (rpc = "idle" => outcome = ReturnedNone)
         /\ (attempt = 0 =>
               /\ opCount = 1
               /\ _stats.retries_performed = stats0.retries_performed
               /\ _stats.total_wait_time = stats0.total_wait_time)

\* A call allowed to retry returned None after one invocation.
C5_Witness ==
    /\ api = "get_repository_info"
    /\ rpc = "idle"
    /\ outcome = ReturnedNone
    /\ opCount = 1
    /\ rconfig.max_retries > 0
    /\ _stats.failed_requests = 1

\* C6: _execute_with_retry never invokes the operation more than
\* max_retries + 1 times, and when every invocation failed with a 5xx it
\* invoked it exactly max_retries + 1 times and raised that exception.
C6_ExhaustsRetries ==
    /\ opCount <= rconfig.max_retries + 1
    /\ (rpc \in {"ret", "idle"} /\ excs = {ServerError})
         => /\ opCount = rconfig.max_retries + 1
            /\ raised = ServerError

\* Every attempt a call with retries had failed with a 5xx, and it raised.
C6_Witness ==
    /\ rpc = "idle"
    /\ excs = {ServerError}
    /\ rconfig.max_retries >= 1
    /\ opCount = rconfig.max_retries + 1
    /\ outcome = ServerError
    /\ _stats.retries_performed = rconfig.max_retries

C10_SecondaryFailuresAbsorbed ==
    (api = "get_repository_info" /\ last_op.primary = Ok)
      => /\ rpc \in {"ret", "idle"}
         /\ raised = Ok

\* C11: no client call ends with an error that comes from rate-limit
\* tracking: the operation raises GithubException or ConnectionError only, so
\* a TypeError raised by _execute_with_retry was raised by the tracker.
C11_TrackerNeverAborts ==
    /\ raised # TypeError
    /\ outcome # TypeError

\* The non-forced interval test of _update_rate_limit_info lets a
\* get_rate_limit_info call made now through to the quota endpoint.
QueriesEndpoint == ~(now - _last_rate_limit_check < RateLimitCheckInterval)

\* C12: a non-forced get_rate_limit_info call queries the quota endpoint only
\* when a full refresh interval has passed since the endpoint was last
\* queried, whether that query succeeded or failed.
C12_OneQueryPerInterval ==
    [][(GetRateLimitInfo /\ QueriesEndpoint)
        => now - last_query >= RateLimitCheckInterval]_vars

RateLimited == GithubException(403)

\* C13: a call of _execute_with_retry whose first k invocations failed with
\* a 403 and whose invocation k+1 succeeded returns the operation's result,
\* and the statistics grew by exactly k rate-limit hits, k retries, k failed
\* requests, one successful request and k+1 requests made.
C13_StatsAfterRateLimitedRetries ==
    (/\ rpc \in {"ret", "idle"}
     /\ raised = Ok
     /\ excs \subseteq {RateLimited, Ok})
      => LET k == opCount - 1
         IN /\ _stats.rate_limit_hits = stats0.rate_limit_hits + k
            /\ _stats.retries_performed = stats0.retries_performed + k
            /\ _stats.failed_requests = stats0.failed_requests + k
            /\ _stats.successful_requests = stats0.successful_requests + 1
            /\ _stats.requests_made = stats0.requests_made + k + 1
            /\ (rpc = "idle" => outcome = Ok)

\* A call succeeded on its second invocation after one 403.
C13_Witness ==
    /\ rpc = "idle"
    /\ outcome = Ok
    /\ excs = {RateLimited, Ok}
    /\ opCount = 2
    /\ _stats.rate_limit_hits = stats0.rate_limit_hits + 1
    /\ _stats.total_wait_time > stats0.total_wait_time

\* ------------------------------------------------ get_repo_info (github.py)
\* What gh.get_repo and the calls after it can answer the basic client.
FallbackOutcomes == {Ok, GithubException(403), GithubException(404),
                     GithubException(500), ConnectionError}

\* The basic client of get_repo_info, lines 136-190: prim answers
\* gh.get_repo, sec the contributors and commits calls.  A GithubException
\* of a secondary call is replaced by its fallback value; a GithubException
\* of gh.get_repo ends in "return None"; anything else is raised.
BasicClient(prim, sec) ==
    IF prim = Ok
    THEN IF sec.type \in {"ok", "GithubException"} THEN Ok ELSE sec
    ELSE IF prim.type = "GithubException" THEN ReturnedNone
    ELSE prim

\* get_repo_info returns to its caller: the answer of
\* client.get_repository_info when that call returned, the basic client's
\* answer when it raised.
GetRepoInfo ==
    /\ rpc = "idle"
    /\ api = "get_repository_info"
    /\ outcome # NoOutcome
    /\ repo_info = NoRepoInfo
    /\ IF outcome \in {Ok, ReturnedNone}
         THEN repo_info' = [result |-> outcome, fallback |-> NoOutcome,
                            has_tags |-> FALSE]
         ELSE \E prim \in FallbackOutcomes :
                \E sec \in IF prim = Ok THEN FallbackOutcomes ELSE {NoOutcome} :
                   repo_info' = [result |-> BasicClient(prim, sec),
                                 fallback |-> prim,
                                 has_tags |-> BasicClient(prim, sec) = Ok]
    /\ UNCHANGED <<_stats, _rate_limit_cache, _last_rate_limit_check, rpc, api,
                   rconfig, attempt, last_exception, raised, outcome, info,
                   last_op, opCount, excs, stats0, log, runs, passes,
                   last_query>>
    /\ UNCHANGED <<breakerVars, backoffVars, dbVars, otherVars>>

\* get_repo_info calls on one client.
InfoNext ==
    \/ StartCall({"get_repository_info"}, RetryConfigs, MaxRequests, MaxRequests)
    \/ Iteration(Outcomes)
    \/ Return
    \/ GetRepoInfo

SpecInfo == ClientInit /\ [][InfoNext]_vars

Retryable == {RateLimited, ServerError}

\* C14: when the primary fetch failed with a 5xx or a rate-limit answer on
\* every attempt, the basic client's attempt included, get_repo_info raises:
\* it does not return None.
C14_ExhaustedRetriesSurface ==
    (/\ repo_info.result # NoOutcome
     /\ excs # {}
     /\ excs \subseteq Retryable
     /\ repo_info.fallback \in Retryable)
      => /\ repo_info.result # ReturnedNone
         /\ repo_info.result # Ok

\* ------------------------------------------------------ database (db.py)
DayTicks == 2                 \* clock ticks in one calendar day

\* now_utc().date()
Today == now \div DayTicks

RECURSIVE Digits(_)
Digits(n) ==
    IF n < 10 THEN <<ToString(n)>> ELSE Append(Digits(n \div 10), ToString(n % 10))

\* str(v) of Python
Str(v) ==
    IF v.kind = "none" THEN <<"N", "o", "n", "e">>
    ELSE IF v.kind = "int" THEN Digits(v.i)
    ELSE v.s

\* utc_now_iso(): the clock to the second, with the Z suffix
utc_now_iso == StrVal(Append(Digits(now), "Z"))

RECURSIVE LStrip(_)
LStrip(x) == IF x # << >> /\ Head(x) = " " THEN LStrip(Tail(x)) ELSE x

RECURSIVE RStrip(_)
RStrip(x) ==
    IF x # << >> /\ x[Len(x)] = " " THEN RStrip(SubSeq(x, 1, Len(x) - 1)) ELSE x

\* str.strip
Strip(x) == RStrip(LStrip(x))

\* RepositoryModel.validate_text_fields (description, notes)
validate_text_fields(v) ==
    IF v = NONE THEN v
    ELSE IF Strip(v.s) = << >> THEN NONE ELSE StrVal(Strip(v.s))

\* RepositoryModel.validate_timestamp: the instant rewritten by to_utc_iso,
\* which ends in Z where the input may end in a +00:00 offset (held as "+").
validate_timestamp(v) ==
    IF v = NONE THEN v
    ELSE IF v.s[Len(v.s)] = "+"
    THEN StrVal(Append(SubSeq(v.s, 1, Len(v.s) - 1), "Z"))
    ELSE v

\* validate_repository_data: the validated dictionary; a field that is NONE
\* is left out of it by model_dump(exclude_none=True).  version defaults to 1.
validate_repository_data(raw) ==
    [stars |-> raw.stars,
     tags |-> raw.tags,
     notes |-> validate_text_fields(raw.notes),
     last_synced |-> validate_timestamp(raw.last_synced),
     version |-> IF "version" \in DOMAIN raw THEN raw.version ELSE IntVal(1)]

\* The records insert_or_update_repo is called with.
RawRecords ==
    [stars : {IntVal(5), IntVal(7)},
     tags : {NONE, StrVal(<<"x">>)},
     notes : {NONE, StrVal(<< >>), StrVal(<<" ", "n">>)},
     last_synced : {NONE, StrVal(<<"0", "+">>)}]

\* The order of the keys of the validated dictionary.
FieldOrder == <<"stars", "tags", "notes", "last_synced", "version">>

\* RepositoryHistoryModel.validate_field_name: version is not an allowed field.
HistoryFieldAllowed(f) == f \in {"stars", "tags", "notes", "last_synced"}

\* _insert_or_update_repo_impl, lines 233-235: the validated dictionary after
\* setdefault('last_synced', timestamp).
WithDefaults(v, ts) ==
    [v EXCEPT !.last_synced = IF @ = NONE THEN ts ELSE @]

\* Lines 265-290: the history rows for the fields of v whose str differs from
\* the row read by the SELECT, in dictionary order.
RECURSIVE HistoryRows(_, _, _)
HistoryRows(v, existing, k) ==
    IF k > Len(FieldOrder) THEN << >>
    ELSE LET f == FieldOrder[k]
             rest == HistoryRows(v, existing, k + 1)
         IN IF /\ v[f] # NONE
               /\ Str(v[f]) # Str(existing[f])
               /\ HistoryFieldAllowed(f)
            THEN <<[field |-> f, old_value |-> Str(existing[f]),
                    new_value |-> Str(v[f])]>> \o rest
            ELSE rest

\* An upsert that writes every column, those the record lacks included.
Upsert_all_columns(row, v) ==
    [stored |-> TRUE, stars |-> v.stars, tags |-> v.tags, notes |-> v.notes,
     last_synced |-> v.last_synced,
     version |-> IF row.stored THEN IntVal(row.version.i + 1) ELSE v.version]

\* query_upsert on the row as it is when the statement runs.
Upsert(row, v) ==
    IF ~row.stored
    THEN [stored |-> TRUE, stars |-> v.stars, tags |-> v.tags,
          notes |-> v.notes, last_synced |-> v.last_synced,
          version |-> v.version]
    ELSE [stored |-> TRUE,
          stars |-> IF v.stars # NONE THEN v.stars ELSE row.stars,
          tags |-> IF v.tags # NONE THEN v.tags ELSE row.tags,
          notes |-> IF v.notes # NONE THEN v.notes ELSE row.notes,
          last_synced |-> IF v.last_synced # NONE THEN v.last_synced
                          ELSE row.last_synced,
          version |-> IntVal(row.version.i + 1)]

\* A version_number: the date, and the numeric suffix after it (0: none).
VersionName(day, suffix) == [day |-> day, suffix |-> suffix]

\* The INSERT of add_version is refused (sqlite3.IntegrityError) when the
\* schema declares the version_number unique for the repository and a row
\* holds it already.
Refused(versions, entry) ==
    /\ unique_versions
    /\ \E k \in 1..Len(versions) :
         versions[k].version_number = entry.version_number

\* add_version: the table after the call.
add_version(versions, entry) ==
    IF Refused(versions, entry) THEN versions ELSE Append(versions, entry)

\* The exception that leaves add_version.
add_version_error(versions, entry) ==
    IF Refused(versions, entry) THEN "IntegrityError" ELSE "none"

\* add_origin_version: a version named by today's date.
OriginVersion == [version_number |-> VersionName(Today, 0), origin |-> TRUE]

\* create_repository_version, lines 702-714, on the rows read by get_versions.
NewVersion(versions) ==
    LET same_day_versions ==
          {k \in 1..Len(versions) :
             versions[k].version_number = VersionName(Today, 0)}
    IN [version_number |->
          IF same_day_versions # {}
          THEN VersionName(Today, Cardinality(same_day_versions) + 1)
          ELSE VersionName(Today, 0),
        origin |-> FALSE]

\* insert_or_update_repo(raw) for a record of the given set, run from its
\* first line to its last with no other database call in between.
InsertOrUpdate(records) ==
    /\ db_calls < MaxUpserts
    /\ \E raw \in records :
         LET v == WithDefaults(validate_repository_data(raw), utc_now_iso)
             existing == repositories
             is_new == ~existing.stored
             rows == IF is_new THEN << >> ELSE HistoryRows(v, existing, 1)
         IN /\ repository_history' = repository_history \o rows
            /\ repositories' = Upsert(repositories, v)
            /\ repository_versions' =
                 IF is_new THEN add_version(repository_versions, OriginVersion)
                 ELSE repository_versions
            /\ db_call' = [op |-> "upsert", raw |-> raw, before |-> existing,
                           rows |-> rows, at |-> now,
                           error |-> IF is_new
                                     THEN add_version_error(repository_versions,
                                                            OriginVersion)
                                     ELSE "none"]
    /\ db_calls' = db_calls + 1
    /\ UNCHANGED <<db_pc, now, unique_versions,
                   db_updates>>
    /\ UNCHANGED <<config, stats, last_failure_time, pc, rejected, resetPc,
                   opCalls, failStreak, halfOpenSuccesses, halfOpenFailure>>
    /\ UNCHANGED <<backoffVars, clientVars, otherVars>>

InsertOrUpdateRepo == InsertOrUpdate(RawRecords)

\* create_repository_version(repo_id, repo_info) for the stored repository.
CreateRepositoryVersion ==
    /\ repositories.stored
    /\ Cardinality({k \in 1..Len(repository_versions) :
                      ~repository_versions[k].origin}) < MaxVersions
    /\ repository_versions' =
         add_version(repository_versions, NewVersion(repository_versions))
    /\ db_call' = [op |-> "version", raw |-> NoRecord, before |-> repositories,
                   rows |-> << >>, at |-> now,
                   error |-> add_version_error(repository_versions,
                                               NewVersion(repository_versions))]
    /\ UNCHANGED <<repositories, repository_history, db_pc, db_calls, now,
                   unique_versions,
                   db_updates>>
    /\ UNCHANGED <<config, stats, last_failure_time, pc, rejected, resetPc,
                   opCalls, failStreak, halfOpenSuccesses, halfOpenFailure>>
    /\ UNCHANGED <<backoffVars, clientVars, otherVars>>

\* The database of initialize_database: the schema is written by the
\* migrations, with or without the UNIQUE constraint on version numbers.
DbInit ==
    /\ BreakerIdle /\ BackoffIdle /\ ClientIdle /\ CommitsIdle
    /\ DbTables
    /\ unique_versions \in BOOLEAN

\* Database calls made one after the other.
DbNext ==
    \/ InsertOrUpdateRepo
    \/ CreateRepositoryVersion
    \/ Tick

SpecDb == DbInit /\ [][DbNext]_vars

\* ------------------------------------------- database: concurrent upserts
\* insert_or_update_repo on a thread of its own.  The SELECT runs outside any
\* transaction; the history INSERTs and the upsert are one write transaction;
\* add_origin_version runs after the connection is released.

\* Lines 223-262: validation, the timestamp, and the SELECT of the stored row.
UpsertSelect(t) ==
    /\ db_pc[t].pc = "idle"
    /\ db_calls < MaxUpserts
    /\ \E raw \in RawRecords :
         LET v == WithDefaults(validate_repository_data(raw), utc_now_iso)
             existing == repositories
         IN db_pc' = [db_pc EXCEPT ![t] =
                        [pc |-> "write", raw |-> raw,
                         v |-> v,
                         existing |-> existing,
                         rows |-> IF existing.stored
                                  THEN HistoryRows(v, existing, 1) ELSE << >>,
                         at |-> now]]
    /\ db_calls' = db_calls + 1
    /\ UNCHANGED <<repositories, repository_history, repository_versions,
                   db_call, now, unique_versions,
                   db_updates>>
    /\ UNCHANGED <<config, stats, last_failure_time, pc, rejected, resetPc,
                   opCalls, failStreak, halfOpenSuccesses, halfOpenFailure>>
    /\ UNCHANGED <<backoffVars, clientVars, otherVars>>

\* The record of the call that thread t has just completed.
Completed(t, error) ==
    [op |-> "upsert", raw |-> db_pc[t].raw, before |-> db_pc[t].existing,
     rows |-> db_pc[t].rows, at |-> db_pc[t].at, error |-> error]

\* Lines 265-296: the history rows and the upsert, committed together.
UpsertWrite(t) ==
    /\ db_pc[t].pc = "write"
    /\ repository_history' = repository_history \o db_pc[t].rows
    /\ repositories' = Upsert(repositories, db_pc[t].v)
    /\ IF db_pc[t].existing.stored
       THEN /\ db_pc' = [db_pc EXCEPT ![t] = DbThreadIdle]
            /\ db_call' = Completed(t, "none")
       ELSE /\ db_pc' = [db_pc EXCEPT ![t].pc = "origin"]
            /\ UNCHANGED db_call
    /\ UNCHANGED <<repository_versions, db_calls, now, unique_versions,
                   db_updates>>
    /\ UNCHANGED <<config, stats, last_failure_time, pc, rejected, resetPc,
                   opCalls, failStreak, halfOpenSuccesses, halfOpenFailure>>
    /\ UNCHANGED <<backoffVars, clientVars, otherVars>>

\* Lines 298-299: if is_new, add_origin_version(repo_id).
AddOriginVersion(t) ==
    /\ db_pc[t].pc = "origin"
    /\ repository_versions' = add_version(repository_versions, OriginVersion)
    /\ db_pc' = [db_pc EXCEPT ![t] = DbThreadIdle]
    /\ db_call' = Completed(t, add_version_error(repository_versions,
                                                 OriginVersion))
    /\ UNCHANGED <<repositories, repository_history, db_calls, now,
                   unique_versions,
                   db_updates>>
    /\ UNCHANGED <<config, stats, last_failure_time, pc, rejected, resetPc,
                   opCalls, failStreak, halfOpenSuccesses, halfOpenFailure>>
    /\ UNCHANGED <<backoffVars, clientVars, otherVars>>

DbThreadsNext ==
    \/ \E t \in Threads : UpsertSelect(t)
    \/ \E t \in Threads : UpsertWrite(t)
    \/ \E t \in Threads : AddOriginVersion(t)
    \/ Tick

SpecDbThreads == DbInit /\ [][DbThreadsNext]_vars

\* ------------------------------------------------ claims on the database
\* The keys a record passed to insert_or_update_repo may carry.
RecordFields == {"stars", "tags", "notes", "last_synced"}

\* The last completed call was insert_or_update_repo on a stored id.
UpdatedStored == db_call.op = "upsert" /\ db_call.before.stored

\* The fields that got a history row in the last completed call.
RowFields == {db_call.rows[k].field : k \in 1..Len(db_call.rows)}

\* C15: with A the stored record and B the record of the call,
\* insert_or_update_repo(B) appends history rows for exactly the fields of B
\* whose str differs from A's, each with old_value = str(A.field) and
\* new_value = str(B.field), and afterwards the stored record holds B's values.
C15_HistoryRowsExactlyDiffering ==
    UpdatedStored =>
        LET A == db_call.before
            B == db_call.raw
            differing == {f \in RecordFields :
                            B[f] # NONE /\ Str(B[f]) # Str(A[f])}
        IN /\ RowFields = differing
           /\ \A k \in 1..Len(db_call.rows) :
                LET r == db_call.rows[k]
                IN r.field \in RecordFields =>
                     /\ r.old_value = Str(A[r.field])
                     /\ r.new_value = Str(B[r.field])
           /\ \A f \in RecordFields : B[f] # NONE => repositories[f] = B[f]

\* C16: upserting a record and then upserting the identical record again, at
\* any later time, appends no history row on the second call.
C16_SecondUpsertNoHistory ==
    [][(/\ db_call.op = "upsert"
        /\ db_calls' = db_calls + 1
        /\ db_call'.op = "upsert"
        /\ db_call'.raw = db_call.raw)
       => repository_history' = repository_history]_vars

\* The origin version entries of the repository.
OriginVersions ==
    {k \in 1..Len(repository_versions) : repository_versions[k].origin}

\* C17: for every interleaving of concurrent upserts of one id, the origin
\* version entry is created exactly once, the first time the id is stored.
C17_OriginVersionOnce == Cardinality(OriginVersions) <= 1

\* C18: after any sequence of insert_or_update_repo and
\* create_repository_version calls on one day, no two version entries share a
\* version_number: each further same-day refresh stores an entry with a
\* version_number of its own.
C18_VersionNumbersUnique ==
    /\ \A j, k \in 1..Len(repository_versions) :
          repository_versions[j].version_number
            = repository_versions[k].version_number => j = k
    /\ db_call.op = "version" => db_call.error = "none"

\* The stored fields that the record of the last call does not carry.
AbsentFields ==
    {f \in Fields : f \notin RecordFields \/ db_call.raw[f] = NONE}

\* C19 as stated: an insert_or_update_repo call for a stored id leaves every
\* stored field that is absent from the new record unchanged and writes no
\* history row for it.
C19_AbsentFieldsUnchanged ==
    UpdatedStored =>
        \A f \in AbsentFields :
            repositories[f] = db_call.before[f] /\ f \notin RowFields

\* The timestamp of the last completed call.
CallTimestamp == StrVal(Append(Digits(db_call.at), "Z"))

\* C19: an insert_or_update_repo call for a stored id leaves every stored
\* field absent from the new record unchanged and writes no history row for
\* it, except that an absent last_synced is set to the call's timestamp, with
\* a history row when that differs from the stored one, and that version is
\* incremented by one without a history row.
C19_AbsentFieldsUnchangedButSyncAndVersion ==
    UpdatedStored =>
        /\ \A f \in AbsentFields \ {"last_synced", "version"} :
             repositories[f] = db_call.before[f] /\ f \notin RowFields
        /\ "last_synced" \in AbsentFields =>
             /\ repositories.last_synced = CallTimestamp
             /\ "last_synced" \in RowFields
                  <=> Str(CallTimestamp) # Str(db_call.before.last_synced)
        /\ repositories.version = IntVal(db_call.before.version.i + 1)
        /\ "version" \notin RowFields

\* A stored id with user tags and notes was upserted with a record that
\* carries neither, and changed another field.
C19_Witness ==
    /\ UpdatedStored
    /\ db_call.raw.tags = NONE /\ db_call.before.tags # NONE
    /\ db_call.raw.notes = NONE /\ db_call.before.notes # NONE
    /\ "stars" \in RowFields

\* ------------------------------------------- claims on the breaker counters
\* The step in which the call of thread t through the breaker ends: it is
\* rejected at the gate, or the wrapped operation returned or raised.
CallEnds(t) ==
    \/ CallEnter(t) /\ pc'[t] = "idle"
    \/ CallSuccess(t)
    \/ CallFailure(t)

\* C20: every call made through a breaker, in any state, the calls rejected
\* with CircuitBreakerOpenError included, increments total_requests and
\* exactly one of successful_requests and failed_requests.
C20_EveryCallCounted ==
    [][\A t \in Threads :
        CallEnds(t) =>
          /\ stats'.total_requests = stats.total_requests + 1
          /\ \/ /\ stats'.successful_requests = stats.successful_requests + 1
                /\ stats'.failed_requests = stats.failed_requests
             \/ /\ stats'.failed_requests = stats.failed_requests + 1
                /\ stats'.successful_requests = stats.successful_requests]_vars

\* ------------------------------------------------ claims on the breaker lock
\* The steps that run inside "with self._lock" of the CircuitBreaker: the
\* gate of call, _record_success and _record_failure.
UnderBreakerLock ==
    \E t \in Threads : CallEnter(t) \/ CallSuccess(t) \/ CallFailure(t)

\* Another caller can pass the gate while thread t runs the wrapped operation.
GateFree(t) ==
    \A u \in Threads \ {t} :
        (pc[u] = "idle" /\ stats.total_requests + InFlight < MaxCalls)
          => ENABLED CallEnter(u)

\* C21: every write of the breaker's state and counters happens in a step
\* that holds the breaker's own lock, and the lock is free while the wrapped
\* operation runs.
C21_StateChangesUnderLock ==
    [][/\ stats' # stats => UnderBreakerLock
       /\ \A t \in Threads : pc[t] = "func" => GateFree(t)]_vars

\* C30: under any interleaving of concurrent calls and manual resets,
\* consecutive_failures and consecutive_successes are never both positive and
\* total_requests equals successful_requests + failed_requests.
C30_CountersConsistent ==
    /\ ~(stats.consecutive_failures > 0 /\ stats.consecutive_successes > 0)
    /\ stats.total_requests = stats.successful_requests + stats.failed_requests

\* A manual reset is between its second and third assignment while a call is
\* running, after a failure and a success were recorded.
C30_Witness ==
    /\ resetPc = 2
    /\ \E t \in Threads : pc[t] = "func"
    /\ stats.failed_requests > 0
    /\ stats.consecutive_successes > 0

\* --------------------------------------- claims on get_repository's breaker
\* C29: a get_repository call that passes the gate records exactly one
\* outcome on the breaker, when it returns and not per retry attempt, and a
\* terminal 404 is recorded as a failure; after 3 get_repository calls in a
\* row have failed, the next call within 30 seconds raises
\* CircuitBreakerOpenError without any remote request.
C29_OneOutcomePerCall ==
    [][/\ (api = "get_repository" /\ rpc = "try") => stats' = stats
       /\ (api = "get_repository" /\ rpc = "ret" /\ rpc' = "idle")
            => /\ stats'.total_requests = stats.total_requests + 1
               /\ raised = GithubException(404)
                    => /\ stats'.failed_requests = stats.failed_requests + 1
                       /\ failStreak' = failStreak + 1
       /\ (/\ rpc = "idle" /\ runs' = runs + 1
           /\ api' = "get_repository"
           /\ failStreak >= 3
           /\ now - last_failure_time < 30)
            => /\ outcome' = CircuitBreakerOpenError
               /\ rpc' = "idle"
               /\ _stats'.requests_made = _stats.requests_made]_vars

\* Three get_repository calls failed, one of them after a retry, and the
\* fourth was rejected.
C29_Witness ==
    /\ api = "get_repository"
    /\ outcome = CircuitBreakerOpenError
    /\ rejected[1]
    /\ stats.total_requests = 3
    /\ failStreak = 3
    /\ _stats.requests_made > 3

\* ------------------------------------------ database: update_repository_fields
\* The dictionaries update_fields (routes/repositories.py) passes: the fields
\* of RepositoryFieldsUpdate that are not None.
FieldUpdates ==
    {[stars |-> IntVal(7)],
     [tags |-> StrVal(<<"y">>)],
     [stars |-> IntVal(5), notes |-> StrVal(<<"m">>)]}

\* The expected_version arguments: None, or a version number.
ExpectedVersions == {None, 1, 2}

\* The value fields gives column f, or the stored one.
Updated(fields, row, f) == IF f \in DOMAIN fields THEN fields[f] ELSE row[f]

\* The history rows of update_repository_fields (lines 512-517), in the order
\* of FieldOrder.
RECURSIVE UpdateRows(_, _, _)
UpdateRows(fields, existing, k) ==
    IF k > Len(FieldOrder) THEN << >>
    ELSE LET f == FieldOrder[k]
             rest == UpdateRows(fields, existing, k + 1)
         IN IF f \in DOMAIN fields /\ Str(existing[f]) # Str(fields[f])
            THEN <<[field |-> f, old_value |-> Str(existing[f]),
                    new_value |-> Str(fields[f])]>> \o rest
            ELSE rest

\* Variant: an update under optimistic locking writes the expected version
\* back instead of incrementing the stored one.
UpdateRow_writes_expected(row, fields, expected_version, ts) ==
    [stored |-> TRUE,
     stars |-> Updated(fields, row, "stars"),
     tags |-> Updated(fields, row, "tags"),
     notes |-> Updated(fields, row, "notes"),
     last_synced |-> ts,
     version |-> IF expected_version # None THEN IntVal(expected_version - 1)
                 ELSE row.version]

\* query_update of update_repository_fields on the stored row.
UpdateRow(row, fields, expected_version, ts) ==
    [stored |-> TRUE,
     stars |-> Updated(fields, row, "stars"),
     tags |-> Updated(fields, row, "tags"),
     notes |-> Updated(fields, row, "notes"),
     last_synced |-> ts,
     version |-> IF expected_version # None THEN IntVal(row.version.i + 1)
                 ELSE row.version]

\* update_repository_fields(repo_id, fields, expected_version), run from its
\* first line to its last.  It returns False when no row is stored and raises
\* OptimisticLockError when the stored version is not the expected one.
UpdateRepositoryFields ==
    /\ db_updates < MaxUpdates
    /\ \E fields \in FieldUpdates, expected_version \in ExpectedVersions :
         LET existing == repositories
             conflict == /\ existing.stored
                         /\ expected_version # None
                         /\ existing.version.i # expected_version
             rows == IF existing.stored /\ ~conflict
                     THEN UpdateRows(fields, existing, 1) ELSE << >>
         IN /\ repositories' =
                 IF existing.stored /\ ~conflict
                 THEN UpdateRow(existing, fields, expected_version, utc_now_iso)
                 ELSE existing
            /\ repository_history' = repository_history \o rows
            /\ db_call' = [op |-> "update", raw |-> fields, before |-> existing,
                           rows |-> rows, at |-> now,
                           error |-> IF conflict THEN "OptimisticLockError"
                                     ELSE "none"]
    /\ db_updates' = db_updates + 1
    /\ UNCHANGED <<repository_versions, db_pc, db_calls, now, unique_versions>>
    /\ UNCHANGED <<config, stats, last_failure_time, pc, rejected, resetPc,
                   opCalls, failStreak, halfOpenSuccesses, halfOpenFailure>>
    /\ UNCHANGED <<backoffVars, clientVars, otherVars>>

\* Records for insert_or_update_repo, one of them carrying a version.
VersionedRecords ==
    {[stars |-> IntVal(5), tags |-> StrVal(<<"x">>), notes |-> NONE,
      last_synced |-> NONE],
     [stars |-> IntVal(7), tags |-> NONE, notes |-> NONE,
      last_synced |-> NONE, version |-> IntVal(2)]}

\* insert_or_update_repo and update_repository_fields calls, one after the
\* other.
FieldsNext ==
    \/ InsertOrUpdate(VersionedRecords)
    \/ UpdateRepositoryFields
    \/ Tick

SpecFields == DbInit /\ [][FieldsNext]_vars

LoadRequests(t) ==
    /\ regs[t].pc = "idle"
    /\ regs[t].done < MaxSharedCalls
    /\ regs' = [regs EXCEPT ![t] = [pc |-> "requests", done |-> regs[t].done,
                                    value |-> _stats.requests_made]]
    /\ UNCHANGED _stats

\* `self._stats['requests_made'] += 1`, the write.
StoreRequests(t) ==
    /\ regs[t].pc = "requests"
    /\ _stats' = [_stats EXCEPT !.requests_made = regs[t].value + 1]
    /\ regs' = [regs EXCEPT ![t] = [pc |-> "operation", done |-> regs[t].done]]

\* `result = operation()` returns, then the read of
\* `self._stats['successful_requests'] += 1`.
LoadSuccessful(t) ==
    /\ regs[t].pc = "operation"
    /\ regs' = [regs EXCEPT ![t] = [pc |-> "successful", done |-> regs[t].done,
                                    value |-> _stats.successful_requests]]
    /\ UNCHANGED _stats

\* `self._stats['successful_requests'] += 1`, the write, and `return result`.
StoreSuccessful(t) ==
    /\ regs[t].pc = "successful"
    /\ _stats' = [_stats EXCEPT !.successful_requests = regs[t].value + 1]
    /\ regs' = [regs EXCEPT ![t] = [pc |-> "idle", done |-> regs[t].done + 1]]

\* What a step of such a call leaves alone.
SharedFrame ==
    /\ UNCHANGED <<_rate_limit_cache, _last_rate_limit_check, rpc, api,
                   rconfig, attempt, last_exception, raised, outcome, info,
                   last_op, opCount, excs, stats0, log, runs, passes,
                   last_query, repo_info>>
    /\ UNCHANGED <<breakerVars, backoffVars, dbVars, commits_in, commits_out>>

SharedNext ==
    \/ \E t \in Threads : LoadRequests(t) /\ SharedFrame
    \/ \E t \in Threads : StoreRequests(t) /\ SharedFrame
    \/ \E t \in Threads : LoadSuccessful(t) /\ SharedFrame
    \/ \E t \in Threads : StoreSuccessful(t) /\ SharedFrame

SpecShared == ClientInit /\ [][SharedNext]_vars

RECURSIVE CallsDone(_)
CallsDone(n) == IF n = 0 THEN 0 ELSE regs[n].done + CallsDone(n - 1)

\* C22: once every thread sharing the client is back from its calls, each of
\* which invoked the operation once and succeeded, requests_made and
\* successful_requests have each grown by exactly the number of calls made.
C22_NoLostUpdate ==
    (\A t \in Threads : regs[t].pc = "idle") =>
        /\ _stats.requests_made = CallsDone(NumThreads)
        /\ _stats.successful_requests = CallsDone(NumThreads)

\* ------------------------------------------- client: the order of a retry
\* The events of a log other than the interval-gated quota queries.
Events(l) == SelectSeq(l, LAMBDA x : x # "query")

\* What the except block leaves in the log when it retries after exception e.
HandlerEvents(e) ==
    <<"op", "delay", "sleep">> \o
        (IF IsRateLimit(e) THEN <<"refresh">> ELSE << >>)

\* The events the quota check of the coming attempt adds to the log, for
\* each way it can reach the invocation of the operation.
PreCheckEvents ==
    {Events(SubSeq(P.log, Len(log) + 1, Len(P.log)))
       : P \in {Q \in PreCheck(Local, attempt) : Q.exc = Ok}}

Added(P) == SubSeq(P.log, Len(log) + 1, Len(P.log))

\* True when sequence l holds event x.
Has(l, x) == \E i \in 1..Len(l) : l[i] = x

\* C24: ahead of the first invocation of the operation nothing is queried
\* and nothing is waited for; ahead of every later attempt, the check is
\* skipped when nothing is cached, and otherwise the call sleeps exactly when
\* the cached core quota is exhausted, and then until its reset time is past.
C24_PreAttemptCheck ==
    rpc = "try" =>
      \A P \in PreCheck(Local, attempt) :
        /\ attempt = 0 => P = Local
        /\ (attempt > 0 /\ _rate_limit_cache = << >>) => P = Local
        /\ (attempt > 0 /\ _rate_limit_cache # << >> /\ P.exc = Ok) =>
             /\ ~Has(Added(P), "query") =>
                  /\ Has(Added(P), "wait") <=> is_exhausted(_rate_limit_cache[1])
                  /\ Has(Added(P), "wait") =>
                       /\ P.now >= _rate_limit_cache[1].reset_time
                       /\ P.stats.total_wait_time - _stats.total_wait_time
                            > reset_in_seconds(_rate_limit_cache[1], now) * Scale
             /\ ~Has(Added(P), "wait") =>
                  /\ ~is_exhausted(P.cache[1])
                  /\ P.now = now
                  /\ P.stats = _stats

\* A later attempt found the cached quota exhausted, waited, and then
\* invoked the operation, while the first attempt of the call had waited
\* for nothing although the quota was already exhausted.
C24_Witness ==
    /\ rpc = "ret"
    /\ raised = Ok
    /\ attempt = 1
    /\ Has(log, "wait")
    /\ ~Has(log, "query")
    /\ last_exception = GithubException(500)
    /\ _stats.total_wait_time > stats0.total_wait_time

\* ------------------------------------------- client: time slept by one call
\* RetryConfig values whose max_delay is shorter than the time to the reset
\* of the quota.
WaitConfigs ==
    [max_retries : {0, 1}, base_delay : {1}, max_delay : {1},
     exponential_base : {2}, jitter : {FALSE}, respect_retry_after : {TRUE}]

\* get_repository_info calls made with these values.
WaitNext ==
    \/ StartCall({"get_repository_info"}, WaitConfigs, MaxRequests, MaxRequests)
    \/ Iteration(Outcomes)
    \/ Return

SpecWait == ClientInit /\ [][WaitNext]_vars

\* C25: the time slept during one call of _execute_with_retry, the growth of
\* total_wait_time since the call started, is at most max_retries * max_delay.
C25_TotalWaitBounded ==
    _stats.total_wait_time - stats0.total_wait_time
        <= rconfig.max_retries * rconfig.max_delay * Scale

\* ------------------------------------------------- get_recent_commits
DEFAULT_COMMIT_LIMIT == 5
RATE_LIMIT_STATUS_CODE == 403
NOT_FOUND_STATUS_CODE == 404
RATE_LIMIT_MAX_WAIT_SECONDS == 60
PageSize == 2      \* commits per page of the paginated list

\* What one attempt can meet: the whole list is served, or the request for
\* the page after `at` commits raises a GithubException or another exception.
\* Iterating the list can raise at the request for a page only, that is
\* after a whole number of pages has been handed out.
AttemptAnswers ==
    LET PagePositions == {p \in 0..MaxCommits : p % PageSize = 0}
    IN {[kind |-> "ok", status |-> 200, at |-> 0]}
         \cup [kind : {"GithubException"},
               status : {RATE_LIMIT_STATUS_CODE, NOT_FOUND_STATUS_CODE, 500},
               at : PagePositions]
         \cup [kind : {"Exception"}, status : {0}, at : PagePositions]

\* The calls: repo is FALSE for None; the repository has commits 1..n, newest
\* first, of which commit `bad` (0 for none) cannot be processed; answers[k]
\* is what the k-th attempt meets.
CommitCalls ==
    UNION {[repo : BOOLEAN, limit : {-5, 0, 1, 3}, max_retries : {mr},
            n : 0..MaxCommits, bad : {0, 1}, answers : [1..mr -> AttemptAnswers]]
             : mr \in 0..MaxCommitRetries}

\* Lines 218-220: an invalid limit is replaced by the default.
EffectiveLimit(limit) == IF limit <= 0 THEN DEFAULT_COMMIT_LIMIT ELSE limit

\* Lines 236-288: the loop over the paginated list from commit i on, count
\* commits taken so far in this attempt, res the result list so far.
RECURSIVE Walk(_, _, _, _, _)
Walk(c, a, i, count, res) ==
    IF a.kind # "ok" /\ a.at = i - 1 /\ (a.at = 0 \/ a.at < c.n)
    THEN [result |-> res, raised |-> TRUE]
    ELSE IF i > c.n THEN [result |-> res, raised |-> FALSE]
    ELSE IF count >= EffectiveLimit(c.limit)
    THEN [result |-> res, raised |-> FALSE]
    ELSE IF i = c.bad THEN Walk(c, a, i + 1, count, res)
    ELSE Walk(c, a, i + 1, count + 1, Append(res, i))

\* Lines 226-307: the attempts from number att on.  requests counts the
\* requests for the commit list, slept the whole seconds slept.
RECURSIVE Attempts(_, _, _, _, _)
Attempts(c, att, res, requests, slept) ==
    IF att >= c.max_retries
    THEN [result |-> res, requests |-> requests, slept |-> slept]
    ELSE LET a == c.answers[att + 1]
             w == Walk(c, a, 1, 0, res)
         IN IF ~w.raised
            THEN [result |-> w.result, requests |-> requests + 1,
                  slept |-> slept]
            ELSE IF /\ a.kind = "GithubException"
                    /\ a.status = RATE_LIMIT_STATUS_CODE
                    /\ att < c.max_retries - 1
            THEN Attempts(c, att + 1, w.result, requests + 1,
                          slept + Min(Pow(2, att),
                                      RATE_LIMIT_MAX_WAIT_SECONDS))
            ELSE [result |-> << >>, requests |-> requests + 1,
                  slept |-> slept]

\* get_recent_commits(repo, limit, None, max_retries)
get_recent_commits(c) ==
    IF ~c.repo THEN [result |-> << >>, requests |-> 0, slept |-> 0]
    ELSE Attempts(c, 0, << >>, 0, 0)

CommitsInit ==
    /\ BreakerIdle /\ BackoffIdle /\ ClientIdle /\ DbIdle
    /\ commits_in \in CommitCalls
    /\ commits_out = NoCommits

\* One call of get_recent_commits on the chosen arguments and answers.
GetRecentCommits ==
    /\ commits_out = NoCommits
    /\ commits_out' = get_recent_commits(commits_in)
    /\ UNCHANGED commits_in
    /\ UNCHANGED <<breakerVars, backoffVars, clientVars, dbVars, regs>>

SpecCommits == CommitsInit /\ [][GetRecentCommits]_vars

\* C27: for a repository that is not None the commit list is requested at
\* least once, also when max_retries is 0.
C27_RequestsAtLeastOnce ==
    (commits_out.requests # None /\ commits_in.repo) => commits_out.requests >= 1

\* C28: the list returned holds at most `limit` commits and no commit twice.
C28_AtMostLimitNoDuplicates ==
    commits_out.requests # None =>
        /\ Len(commits_out.result) <= EffectiveLimit(commits_in.limit)
        /\ \A i, j \in 1..Len(commits_out.result) :
             commits_out.result[i] = commits_out.result[j] => i = j
====
